---- MODULE Spec2Model ----
(***************************************************************************)
(* Model of the cellular-automaton engine of src/src/app.rs: the Model     *)
(* struct (cells, rule, state, current_coords, max_coords), its message    *)
(* handler Model::update and the preset loader.  A Vec is a function on    *)
(* 0..len-1, so that indices read as in the source.                        *)
(* Rule::from, Preset::from and Model::rulestring work on strings, which    *)
(* are sequences of one-letter strings here; args holds the command line   *)
(* of main.rs where the model is built from one.                           *)
(***************************************************************************)
EXTENDS Integers, Sequences, FiniteSets, TLC

VARIABLES cells, rule, state, current_coords, max_coords, panicked, msg, prev, gens,
          args, host

vars == <<cells, rule, state, current_coords, max_coords, panicked, msg, prev, gens,
          args, host>>

(* ------------------------------ bounds --------------------------------- *)

\* largest max_y / max_x handed to Model::new (the grid has max+1 rows/columns)
MaxY == 1
MaxX == 1
\* the same for the specification that applies pass_tick to arbitrary grids
TickMaxY == 2
TickMaxX == 1
\* largest |delta| tried on move_cursor
MaxDelta == 3
\* generation steps counted in the blinker scenario
MaxGens == 4
\* longest rule string of the exhaustive part of the inputs of Rule::from
MaxLen == 4
\* largest digit of the generated B<digits>/S<digits> strings, besides 8 and 9
MaxDigit == 1

(* ------------------------------ helpers -------------------------------- *)

\* vec![a, b, c]: indices 0..len-1
Vec(s) == [i \in 0..(Len(s) - 1) |-> s[i + 1]]

VecLen(v) == Cardinality(DOMAIN v)

Range(s) == {s[i] : i \in DOMAIN s}

\* `n as i16` / wrapping i16 arithmetic
AsI16(n) == LET m == n % 65536 IN IF m >= 32768 THEN m - 65536 ELSE m

Grids(my, mx) == [0..my -> [0..mx -> BOOLEAN]]

(* ------------------------------ Model ---------------------------------- *)

\* variant: a count of 8 is rejected as well
new_rejects_eight(max_y, max_x, birth_list, survival_list) ==
    LET refused == \/ \E i \in DOMAIN birth_list : birth_list[i] >= 8
                   \/ \E i \in DOMAIN survival_list : survival_list[i] >= 8
                   \/ max_x <= 0
                   \/ max_y <= 0
    IN  [cells          |-> IF refused THEN << >>
                            ELSE [y \in 0..max_y |-> [x \in 0..max_x |-> FALSE]],
         rule           |-> [birth_list |-> birth_list, survival_list |-> survival_list],
         state          |-> "Editing",
         current_coords |-> [x |-> 0, y |-> 0],
         max_coords     |-> [x |-> max_x, y |-> max_y],
         panicked       |-> refused]

\* Model::new.  A call that panics produces no Model: panicked is set, cells is
\* empty, rule and max_coords keep the arguments of the call.
new(max_y, max_x, birth_list, survival_list) ==
    LET refused == \/ \E i \in DOMAIN birth_list : birth_list[i] > 8
                   \/ \E i \in DOMAIN survival_list : survival_list[i] > 8
                   \/ max_x <= 0
                   \/ max_y <= 0
    IN  [cells          |-> IF refused THEN << >>
                            ELSE [y \in 0..max_y |-> [x \in 0..max_x |-> FALSE]],
         rule           |-> [birth_list |-> birth_list, survival_list |-> survival_list],
         state          |-> "Editing",
         current_coords |-> [x |-> 0, y |-> 0],
         max_coords     |-> [x |-> max_x, y |-> max_y],
         panicked       |-> refused]

\* self.cells[y][x] = val: Vec indexing panics on an index out of range
index_set(self, y, x, val) ==
    IF y \in DOMAIN self.cells /\ x \in DOMAIN self.cells[y]
    THEN [self EXCEPT !.cells[y][x] = val]
    ELSE [self EXCEPT !.panicked = TRUE]

update_cell(self, y, x, val) ==
    IF AsI16(y) <= self.max_coords.y /\ AsI16(x) <= self.max_coords.x
    THEN index_set(self, y, x, val)
    ELSE self

\* the count without the upper-right neighbour
active_neighbors_without_upper_right(self, cells_prev, y, x) ==
    LET can_go_up    == y > 0
        can_go_down  == AsI16(y) < self.max_coords.y
        can_go_left  == x > 0
        can_go_right == AsI16(x) < self.max_coords.x
        one(b)       == IF b THEN 1 ELSE 0
    IN    one(can_go_up /\ cells_prev[y - 1][x])
        + one(can_go_up /\ can_go_left /\ cells_prev[y - 1][x - 1])
        + one(can_go_down /\ cells_prev[y + 1][x])
        + one(can_go_down /\ can_go_left /\ cells_prev[y + 1][x - 1])
        + one(can_go_down /\ can_go_right /\ cells_prev[y + 1][x + 1])
        + one(can_go_left /\ cells_prev[y][x - 1])
        + one(can_go_right /\ cells_prev[y][x + 1])

\* the neighbour count of pass_tick for one (y, x), read from the snapshot
active_neighbors(self, cells_prev, y, x) ==
    LET can_go_up    == y > 0
        can_go_down  == AsI16(y) < self.max_coords.y
        can_go_left  == x > 0
        can_go_right == AsI16(x) < self.max_coords.x
        one(b)       == IF b THEN 1 ELSE 0
    IN    one(can_go_up /\ cells_prev[y - 1][x])
        + one(can_go_up /\ can_go_left /\ cells_prev[y - 1][x - 1])
        + one(can_go_up /\ can_go_right /\ cells_prev[y - 1][x + 1])
        + one(can_go_down /\ cells_prev[y + 1][x])
        + one(can_go_down /\ can_go_left /\ cells_prev[y + 1][x - 1])
        + one(can_go_down /\ can_go_right /\ cells_prev[y + 1][x + 1])
        + one(can_go_left /\ cells_prev[y][x - 1])
        + one(can_go_right /\ cells_prev[y][x + 1])

\* the birth test reads the survival list
tick_cell_births_from_survivals(self, cells_prev, y, x) ==
    LET n == active_neighbors(self, cells_prev, y, x)
    IN  IF cells_prev[y][x]
        THEN LET kill_cell == ~ \E i \in DOMAIN self.rule.survival_list :
                                      n = self.rule.survival_list[i]
             IN  IF kill_cell THEN update_cell(self, y, x, FALSE) ELSE self
        ELSE IF \E i \in DOMAIN self.rule.survival_list : n = self.rule.survival_list[i]
             THEN update_cell(self, y, x, TRUE)
             ELSE self

\* variant: every birth criterion that matches flips the cell
tick_cell_birth_flips_per_match(self, cells_prev, y, x) ==
    LET n == active_neighbors(self, cells_prev, y, x)
        matches == {i \in DOMAIN self.rule.birth_list : n = self.rule.birth_list[i]}
    IN  IF cells_prev[y][x]
        THEN LET kill_cell == ~ \E i \in DOMAIN self.rule.survival_list :
                                      n = self.rule.survival_list[i]
             IN  IF kill_cell THEN update_cell(self, y, x, FALSE) ELSE self
        ELSE IF Cardinality(matches) % 2 = 1
             THEN update_cell(self, y, x, TRUE)
             ELSE self

\* the survival / birth test of pass_tick for one (y, x)
tick_cell(self, cells_prev, y, x) ==
    LET n == active_neighbors(self, cells_prev, y, x)
    IN  IF cells_prev[y][x]
        THEN LET kill_cell == ~ \E i \in DOMAIN self.rule.survival_list :
                                      n = self.rule.survival_list[i]
             IN  IF kill_cell THEN update_cell(self, y, x, FALSE) ELSE self
        ELSE IF \E i \in DOMAIN self.rule.birth_list : n = self.rule.birth_list[i]
             THEN update_cell(self, y, x, TRUE)
             ELSE self

\* neighbours are read from the grid being written instead of the snapshot
RECURSIVE tick_loop_in_place(_, _, _)
tick_loop_in_place(self, cells_prev, k) ==
    LET columns == VecLen(cells_prev[0])
    IN  IF self.panicked \/ k >= VecLen(cells_prev) * columns
        THEN self
        ELSE tick_loop_in_place(tick_cell(self, self.cells, k \div columns, k % columns),
                                cells_prev, k + 1)

\* the loops over cells_prev.iter().enumerate(), row-major; k = y * columns + x
RECURSIVE tick_loop(_, _, _)
tick_loop(self, cells_prev, k) ==
    LET columns == VecLen(cells_prev[0])
    IN  IF self.panicked \/ k >= VecLen(cells_prev) * columns
        THEN self
        ELSE tick_loop(tick_cell(self, cells_prev, k \div columns, k % columns),
                       cells_prev, k + 1)

\* variant: the early return for a mode other than Running is missing
pass_tick_any_state(self) == tick_loop(self, self.cells, 0)

\* app.rs:200-300
pass_tick(self) ==
    IF self.state # "Running"
    THEN self
    ELSE tick_loop(self, self.cells, 0)

\* the loops of insert_cells over the pattern, row-major, unchecked indexing
RECURSIVE insert_loop(_, _, _)
insert_loop(self, pattern, k) ==
    LET columns == VecLen(pattern[0])
    IN  IF self.panicked \/ k >= VecLen(pattern) * columns
        THEN self
        ELSE insert_loop(index_set(self, k \div columns, k % columns,
                                   pattern[k \div columns][k % columns]),
                         pattern, k + 1)

\* variant: the pattern replaces the buffer
insert_cells_replacing_buffer(self, pattern) == [self EXCEPT !.cells = pattern]

insert_cells(self, pattern) == insert_loop(self, pattern, 0)

Mold ==
    Vec(<< Vec(<<FALSE, FALSE, FALSE, TRUE, TRUE, FALSE>>),
           Vec(<<FALSE, FALSE, TRUE, FALSE, FALSE, TRUE>>),
           Vec(<<TRUE, FALSE, FALSE, TRUE, FALSE, TRUE>>),
           Vec(<<FALSE, FALSE, FALSE, FALSE, TRUE, FALSE>>),
           Vec(<<TRUE, FALSE, TRUE, TRUE, FALSE, FALSE>>),
           Vec(<<FALSE, TRUE, FALSE, FALSE, FALSE, FALSE>>) >>)

Blinker ==
    Vec(<< Vec(<<FALSE, FALSE, FALSE>>),
           Vec(<<TRUE, TRUE, TRUE>>),
           Vec(<<FALSE, FALSE, FALSE>>) >>)

Empty == Vec(<< Vec(<<FALSE>>) >>)

Presets == {"Blinker", "Mold", "Random", "Empty"}

\* the pattern a preset stands for; random is what the rng draws for Random
preset_cells(preset, random) ==
    CASE preset = "Mold"    -> Mold
      [] preset = "Blinker" -> Blinker
      [] preset = "Random"  -> random
      [] OTHER              -> Empty

load_preset(self, preset, random) == insert_cells(self, preset_cells(preset, random))

\* variant: the toggle guarded by the mode, as move_cursor is
toggle_current_cell_editing_only(self) ==
    LET x == self.current_coords.x
        y == self.current_coords.y
    IN  IF self.state = "Editing" THEN index_set(self, y, x, ~self.cells[y][x]) ELSE self

\* app.rs:314-318: no test of the mode
toggle_current_cell(self) ==
    LET x == self.current_coords.x
        y == self.current_coords.y
    IN  index_set(self, y, x, ~self.cells[y][x])

\* variant: the Running branch is missing
toggle_editing_state_one_way(self) ==
    IF self.state = "Editing" THEN [self EXCEPT !.state = "Running"] ELSE self

\* variant: a plain else in place of the test for Running
toggle_editing_state_from_done(self) ==
    IF self.state = "Editing"
    THEN [self EXCEPT !.state = "Running"]
    ELSE [self EXCEPT !.state = "Editing"]

\* app.rs:320-326: no branch for Done
toggle_editing_state(self) ==
    IF self.state = "Editing"
    THEN [self EXCEPT !.state = "Running"]
    ELSE IF self.state = "Running"
         THEN [self EXCEPT !.state = "Editing"]
         ELSE self

\* variant: Quit ignored while Running
quit_unless_running(self) ==
    IF self.state = "Running" THEN self ELSE [self EXCEPT !.state = "Done"]

\* app.rs:328-330
quit(self) == [self EXCEPT !.state = "Done"]

\* one axis of move_cursor
clamp_axis(cur, delta, max) ==
    LET temp == AsI16(cur + delta)
    IN  IF temp <= 0 THEN 0
        ELSE IF temp >= max THEN max
        ELSE temp

\* variant: the x axis is not clamped to max_coords.x
move_cursor_no_upper_clamp(self, x_delta, y_delta) ==
    IF self.state = "Editing"
    THEN LET tx == AsI16(self.current_coords.x + x_delta)
         IN  [self EXCEPT !.current_coords =
                 [x |-> IF tx <= 0 THEN 0 ELSE tx,
                  y |-> clamp_axis(self.current_coords.y, y_delta, self.max_coords.y)]]
    ELSE self

\* variant: the cursor moves in every mode
move_cursor_in_any_state(self, x_delta, y_delta) ==
    [self EXCEPT !.current_coords =
        [x |-> clamp_axis(self.current_coords.x, x_delta, self.max_coords.x),
         y |-> clamp_axis(self.current_coords.y, y_delta, self.max_coords.y)]]

\* app.rs:341-361: effective only in Editing, the two axes clamped separately
move_cursor(self, x_delta, y_delta) ==
    IF self.state = "Editing"
    THEN [self EXCEPT !.current_coords =
             [x |-> clamp_axis(self.current_coords.x, x_delta, self.max_coords.x),
              y |-> clamp_axis(self.current_coords.y, y_delta, self.max_coords.y)]]
    ELSE self

Directions == {"Up", "Down", "Left", "Right"}

move_cursor_in_direction(self, dir) ==
    CASE dir = "Up"    -> move_cursor(self, 0, -1)
      [] dir = "Down"  -> move_cursor(self, 0, 1)
      [] dir = "Left"  -> move_cursor(self, -1, 0)
      [] dir = "Right" -> move_cursor(self, 1, 0)

Message(kind, arg) == [kind |-> kind, arg |-> arg]

\* variant: the arms of the two toggles are exchanged
update_toggle_arms_exchanged(self, m) ==
    CASE m.kind = "Move"            -> move_cursor_in_direction(self, m.arg)
      [] m.kind = "ToggleCellState" -> toggle_editing_state(self)
      [] m.kind = "ToggleEditing"   -> toggle_current_cell(self)
      [] m.kind = "Idle"            -> pass_tick(self)
      [] m.kind = "Quit"            -> quit(self)

update(self, m) ==
    CASE m.kind = "Move"            -> move_cursor_in_direction(self, m.arg)
      [] m.kind = "ToggleCellState" -> toggle_current_cell(self)
      [] m.kind = "ToggleEditing"   -> toggle_editing_state(self)
      [] m.kind = "Idle"            -> pass_tick(self)
      [] m.kind = "Quit"            -> quit(self)

(* --------------------------- state machine ----------------------------- *)

Self ==
    [cells |-> cells, rule |-> rule, state |-> state,
     current_coords |-> current_coords, max_coords |-> max_coords,
     panicked |-> panicked]

\* the model becomes r; msg and prev remember the call and the model before it
Becomes(r, m) ==
    /\ cells' = r.cells
    /\ rule' = r.rule
    /\ state' = r.state
    /\ current_coords' = r.current_coords
    /\ max_coords' = r.max_coords
    /\ panicked' = r.panicked
    /\ msg' = m
    /\ prev' = Self
    /\ args' = args

\* an input event of the terminal, or the timeout of poll
Event(kind, ch) == [kind |-> kind, ch |-> ch]

\* run_model has not been called
NotCalled == [pc |-> "main", mode |-> "-", event |-> Event("none", "-"), sent |-> << >>]

\* no command line: the model is built by a direct call of Model::new
NoArgs == [rulestring |-> << >>, preset_string |-> ""]

Starts(m0) ==
    /\ args = NoArgs
    /\ host = NotCalled
    /\ cells = m0.cells
    /\ rule = m0.rule
    /\ state = m0.state
    /\ current_coords = m0.current_coords
    /\ max_coords = m0.max_coords
    /\ panicked = m0.panicked
    /\ msg = Message("New", "-")
    /\ prev = m0
    /\ gens = 0

Rule(b, s) == [birth_list |-> b, survival_list |-> s]

\* Rule::default()
default == Rule(<<3>>, <<2, 3>>)

(* ---------------- Rule::from, Preset::from, rulestring ------------------ *)

\* A string is the sequence of its characters, a character a one-letter string.
\* The letters are the ASCII ones; the inputs below hold no other.
Letters ==
    {"A", "B", "C", "D", "E", "F", "G", "H", "I", "J", "K", "L", "M",
     "N", "O", "P", "Q", "R", "S", "T", "U", "V", "W", "X", "Y", "Z",
     "a", "b", "c", "d", "e", "f", "g", "h", "i", "j", "k", "l", "m",
     "n", "o", "p", "q", "r", "s", "t", "u", "v", "w", "x", "y", "z"}

DigitChars == <<"0", "1", "2", "3", "4", "5", "6", "7", "8", "9">>

\* ch.is_alphabetic()
is_alphabetic(ch) == ch \in Letters

\* ch.is_digit(10)
is_digit(ch) == \E d \in 0..9 : DigitChars[d + 1] = ch

\* ch.to_digit(10).unwrap() as u8
to_digit(ch) == CHOOSE d \in 0..9 : DigitChars[d + 1] = ch

\* the locals of Rule::from before the loop; returned marks `return Rule::default()`
from_start ==
    [in_born |-> FALSE, in_survival |-> FALSE,
     birth_list |-> << >>, survival_list |-> << >>, returned |-> FALSE]

\* variant: 'S' opens the survival section without closing the birth section
from_step_born_stays_open(st, ch) ==
    LET in_born     == IF ch = "B" THEN TRUE ELSE st.in_born
        in_survival == IF ch = "B" THEN FALSE ELSE IF ch = "S" THEN TRUE ELSE st.in_survival
    IN  IF ch # "B" /\ ch # "S" /\ is_alphabetic(ch)
        THEN [st EXCEPT !.returned = TRUE]
        ELSE IF ~in_born /\ ~in_survival
        THEN [st EXCEPT !.returned = TRUE]
        ELSE IF is_digit(ch) /\ in_born
        THEN [st EXCEPT !.in_born = in_born, !.in_survival = in_survival,
                        !.birth_list = Append(@, to_digit(ch))]
        ELSE IF is_digit(ch)
        THEN [st EXCEPT !.in_born = in_born, !.in_survival = in_survival,
                        !.survival_list = Append(@, to_digit(ch))]
        ELSE [st EXCEPT !.in_born = in_born, !.in_survival = in_survival]

\* variant: a letter other than 'B' and 'S' is skipped while a section is open
from_step_letters_skipped(st, ch) ==
    LET in_born     == IF ch = "B" THEN TRUE ELSE IF ch = "S" THEN FALSE ELSE st.in_born
        in_survival == IF ch = "B" THEN FALSE ELSE IF ch = "S" THEN TRUE ELSE st.in_survival
    IN  IF ~in_born /\ ~in_survival
        THEN [st EXCEPT !.returned = TRUE]
        ELSE IF is_digit(ch) /\ in_born
        THEN [st EXCEPT !.in_born = in_born, !.in_survival = in_survival,
                        !.birth_list = Append(@, to_digit(ch))]
        ELSE IF is_digit(ch)
        THEN [st EXCEPT !.in_born = in_born, !.in_survival = in_survival,
                        !.survival_list = Append(@, to_digit(ch))]
        ELSE [st EXCEPT !.in_born = in_born, !.in_survival = in_survival]

\* variant: every character that is no digit, 'B' or 'S' returns the default
from_step_strict(st, ch) ==
    LET in_born     == IF ch = "B" THEN TRUE ELSE IF ch = "S" THEN FALSE ELSE st.in_born
        in_survival == IF ch = "B" THEN FALSE ELSE IF ch = "S" THEN TRUE ELSE st.in_survival
    IN  IF ch # "B" /\ ch # "S" /\ ~is_digit(ch)
        THEN [st EXCEPT !.returned = TRUE]
        ELSE IF ~in_born /\ ~in_survival
        THEN [st EXCEPT !.returned = TRUE]
        ELSE IF is_digit(ch) /\ in_born
        THEN [st EXCEPT !.in_born = in_born, !.in_survival = in_survival,
                        !.birth_list = Append(@, to_digit(ch))]
        ELSE IF is_digit(ch)
        THEN [st EXCEPT !.in_born = in_born, !.in_survival = in_survival,
                        !.survival_list = Append(@, to_digit(ch))]
        ELSE [st EXCEPT !.in_born = in_born, !.in_survival = in_survival]

\* one turn of `for ch in rulestring.chars()`.  A digit is read with one of the
\* two flags set, so the last `else` of app.rs:402-404 is never taken.
from_step(st, ch) ==
    LET in_born     == IF ch = "B" THEN TRUE ELSE IF ch = "S" THEN FALSE ELSE st.in_born
        in_survival == IF ch = "B" THEN FALSE ELSE IF ch = "S" THEN TRUE ELSE st.in_survival
    IN  IF ch # "B" /\ ch # "S" /\ is_alphabetic(ch)
        THEN [st EXCEPT !.returned = TRUE]
        ELSE IF ~in_born /\ ~in_survival
        THEN [st EXCEPT !.returned = TRUE]
        ELSE IF is_digit(ch) /\ in_born
        THEN [st EXCEPT !.in_born = in_born, !.in_survival = in_survival,
                        !.birth_list = Append(@, to_digit(ch))]
        ELSE IF is_digit(ch)
        THEN [st EXCEPT !.in_born = in_born, !.in_survival = in_survival,
                        !.survival_list = Append(@, to_digit(ch))]
        ELSE [st EXCEPT !.in_born = in_born, !.in_survival = in_survival]

\* the loop over the characters i.. of s, left at the first return
RECURSIVE from_loop(_, _, _)
from_loop(st, s, i) ==
    IF st.returned \/ i > Len(s) THEN st
    ELSE from_loop(from_step(st, s[i]), s, i + 1)

\* Rule::from(rulestring)
rule_from(s) ==
    LET st == from_loop(from_start, s, 1)
    IN  IF st.returned THEN default ELSE Rule(st.birth_list, st.survival_list)

\* variant: the match ignores the case of the first letter
preset_from_any_case(s) ==
    IF s \in {"Blinker", "blinker"} THEN "Blinker"
    ELSE IF s \in {"Mold", "mold"} THEN "Mold"
    ELSE IF s \in {"Random", "random"} THEN "Random"
    ELSE "Empty"

\* Preset::from(preset_string)
preset_from(s) ==
    IF s = "Blinker" THEN "Blinker"
    ELSE IF s = "Mold" THEN "Mold"
    ELSE IF s = "Random" THEN "Random"
    ELSE "Empty"

\* Config::build without the tickrate
build(preset_string, s) == [preset |-> preset_from(preset_string), rule |-> rule_from(s)]

\* u8::to_string
to_string(n) ==
    IF n < 10 THEN <<DigitChars[n + 1]>>
    ELSE IF n < 100 THEN <<DigitChars[(n \div 10) + 1], DigitChars[(n % 10) + 1]>>
    ELSE <<DigitChars[(n \div 100) + 1], DigitChars[((n \div 10) % 10) + 1],
           DigitChars[(n % 10) + 1]>>

\* push_str of every entry of list from index i on
RECURSIVE push_all(_, _, _)
push_all(str, list, i) ==
    IF i > Len(list) THEN str
    ELSE push_all(str \o to_string(list[i]), list, i + 1)

\* variant: the separator between the two sections is left out
rulestring_without_slash(self) ==
    push_all(push_all(<<"B">>, self.rule.birth_list, 1) \o <<"S">>,
             self.rule.survival_list, 1)

\* Model::rulestring
rulestring(self) ==
    push_all(push_all(<<"B">>, self.rule.birth_list, 1) \o <<"/", "S">>,
             self.rule.survival_list, 1)

\* the rules of main.rs:34 and of tests::rulestring_from
Rules == {default, Rule(<<4, 5>>, <<1, 0>>)}

Init ==
    \E max_y \in 1..MaxY, max_x \in 1..MaxX, r \in Rules :
        Starts(new(max_y, max_x, r.birth_list, r.survival_list))

\* Model::update(msg)
Deliver(m) ==
    /\ ~panicked
    /\ Becomes(update(Self, m), m)

\* main.rs:69, right after Model::new
LoadPreset(preset) ==
    /\ ~panicked
    /\ msg.kind = "New"
    /\ \E random \in Grids(max_coords.y, max_coords.x) :
          /\ preset = "Random" \/ random = cells
          /\ Becomes(load_preset(Self, preset, random), Message("LoadPreset", preset))
    /\ UNCHANGED <<gens, host>>

Move(dir) == Deliver(Message("Move", dir)) /\ UNCHANGED <<gens, host>>

ToggleCellState == Deliver(Message("ToggleCellState", "-")) /\ UNCHANGED <<gens, host>>

ToggleEditing == Deliver(Message("ToggleEditing", "-")) /\ UNCHANGED <<gens, host>>

Idle == Deliver(Message("Idle", "-")) /\ UNCHANGED <<gens, host>>

Quit == Deliver(Message("Quit", "-")) /\ UNCHANGED <<gens, host>>

Next ==
    \/ \E p \in Presets : LoadPreset(p)
    \/ \E d \in Directions : Move(d)
    \/ ToggleCellState
    \/ ToggleEditing
    \/ Idle
    \/ Quit

Spec == Init /\ [][Next]_vars

(* ------------- pass_tick on arbitrary grids and rules ------------------ *)

\* birth and survival lists as the tests and Rule::from produce them:
\* unsorted, repeated, empty, with 0 and with 8
TickRules ==
    {default,
     Rule(<<4, 5>>, <<1, 0>>),
     Rule(<<>>, <<>>),
     Rule(<<2, 3, 5>>, <<1, 7>>),
     Rule(<<0>>, <<8>>),
     Rule(<<3, 3, 8>>, <<3, 2, 3>>),
     Rule(<<1, 2, 3, 4, 5, 6, 7, 8>>, <<0, 1, 2, 3, 4, 5, 6, 7, 8>>),
     Rule(<<1, 3, 5, 7>>, <<0, 2, 4, 6, 8>>)}

\* a model of any size, grid content and rule, already Running
InitTick ==
    \E max_y \in 1..TickMaxY, max_x \in 1..TickMaxX, r \in TickRules :
        \E g \in Grids(max_y, max_x) :
            Starts([new(max_y, max_x, r.birth_list, r.survival_list)
                       EXCEPT !.cells = g, !.state = "Running"])

NextTick == Idle

SpecTick == InitTick /\ [][NextTick]_vars

(* ---------------- tests::pass_tick_running_blinker --------------------- *)

BlinkerMax == 4

Horizontal ==
    [y \in 0..BlinkerMax |-> [x \in 0..BlinkerMax |-> y = 2 /\ x \in 1..3]]

Vertical ==
    [y \in 0..BlinkerMax |-> [x \in 0..BlinkerMax |-> x = 2 /\ y \in 1..3]]

InitBlinker ==
    Starts([new(BlinkerMax, BlinkerMax, <<3>>, <<2, 3>>) EXCEPT !.cells = Horizontal])

\* Idle, counting the generation steps it makes
CountedIdle ==
    /\ gens < MaxGens
    /\ Deliver(Message("Idle", "-"))
    /\ gens' = IF state = "Running" THEN gens + 1 ELSE gens
    /\ UNCHANGED host

NextBlinker ==
    \/ \E d \in Directions : Move(d)
    \/ ToggleEditing
    \/ CountedIdle
    \/ Quit

SpecBlinker == InitBlinker /\ [][NextBlinker]_vars

(* ------------------- Model::update_cell called directly ---------------- *)

\* usize arguments around the 16-bit boundaries of the cast `as i16`
Wrapping == {32767, 32768, 65535, 65536, 65537}

IndexSamples(max) == 0..(max + 1) \cup Wrapping

UpdateCell(y, x, val) ==
    /\ ~panicked
    /\ Becomes(update_cell(Self, y, x, val),
               Message("UpdateCell", [y |-> y, x |-> x, val |-> val]))
    /\ UNCHANGED <<gens, host>>

InitCell ==
    \E max_y \in 1..MaxY, max_x \in 1..MaxX :
        Starts(new(max_y, max_x, default.birth_list, default.survival_list))

NextCell ==
    \E y \in IndexSamples(max_coords.y), x \in IndexSamples(max_coords.x), val \in BOOLEAN :
        UpdateCell(y, x, val)

SpecCell == InitCell /\ [][NextCell]_vars

(* ------------------------- Model::new called --------------------------- *)

\* before Model::new has been called there is no Model
NotBuilt ==
    [cells |-> << >>, rule |-> Rule(<< >>, << >>), state |-> "Editing",
     current_coords |-> [x |-> 0, y |-> 0], max_coords |-> [x |-> 0, y |-> 0],
     panicked |-> FALSE]

\* the program has been entered with the arguments a
Entered(a) ==
    /\ args = a
    /\ host = NotCalled
    /\ cells = NotBuilt.cells
    /\ rule = NotBuilt.rule
    /\ state = NotBuilt.state
    /\ current_coords = NotBuilt.current_coords
    /\ max_coords = NotBuilt.max_coords
    /\ panicked = NotBuilt.panicked
    /\ msg = Message("Start", "-")
    /\ prev = NotBuilt
    /\ gens = 0

Construct(max_y, max_x, birth_list, survival_list) ==
    /\ msg.kind = "Start"
    /\ Becomes(new(max_y, max_x, birth_list, survival_list), Message("New", "-"))
    /\ UNCHANGED <<gens, host>>

\* i16 sizes: the least i16, negative, zero and valid ones
NewSizes == {-32768} \cup (-1..MaxY) \cup (-1..MaxX)

\* Vec<u8> lists: empty, valid, with 8, with 9 (tests::too_many_neighbors_*),
\* with the largest u8
NewLists == {<< >>, <<3>>, <<2, 3>>, <<8>>, <<0, 8>>, <<9>>, <<1, 2, 9>>, <<255>>}

InitNew == Entered(NoArgs)

NextNew ==
    \E max_y \in NewSizes, max_x \in NewSizes, b \in NewLists, s \in NewLists :
        Construct(max_y, max_x, b, s)

SpecNew == InitNew /\ [][NextNew]_vars

(* ------------------- main: Config::build, Model::new -------------------- *)

\* every string over alphabet of at most n characters
Strings(alphabet, n) == UNION {[1..k -> alphabet] : k \in 0..n}

\* both sentinels, two digits, a separator and a letter
Alphabet == {"B", "S", "1", "2", "/", "x"}

RECURSIVE Ascending(_)
Ascending(digits) ==
    IF digits = {} THEN << >>
    ELSE LET least == CHOOSE d \in digits : \A e \in digits : d <= e
         IN  <<DigitChars[least + 1]>> \o Ascending(digits \ {least})

\* the digits the generated rule strings are written with
RuleDigits == (0..MaxDigit) \cup {8, 9}

\* B<digits>/S<digits> with ascending digits, as rulestring() prints a sorted rule
GeneratedStrings ==
    {<<"B">> \o Ascending(b) \o <<"/", "S">> \o Ascending(sv) :
        b \in SUBSET RuleDigits, sv \in SUBSET RuleDigits}

\* the default of --rulestring
DefaultRulestring == <<"B", "3", "/", "S", "2", "3">>

\* the strings of tests::rulestring_from and tests::rulestring, and variants
TestStrings ==
    {<<"2", "9", "8", "3", "u", "h", "j", "n", "e", "r", "e">>,
     <<"B", "4", "5", "/", "S", "1", "0">>,
     <<"B", "2", "3", "5", "/", "S", "1", "7">>,
     <<"B", "3", "3", "/", "S", "2", "0", "2">>,
     <<"S", "2", "3", "/", "B", "3">>,
     <<"B", "3", "-", "S", "2", "3">>,
     <<"B", "4", " ", "/", " ", "S", "1">>,
     <<"b", "3", "/", "s", "2", "3">>,
     <<"B", "3", "/", "S", "2", "3", "e">>,
     DefaultRulestring}

RuleStrings == Strings(Alphabet, MaxLen) \cup GeneratedStrings \cup TestStrings

\* "None" is the default of --preset
PresetStrings == {"None", "Blinker", "Mold", "Random", "blinker", "Mold ", "Empty", ""}

MainArgs ==
    {[rulestring |-> s, preset_string |-> "None"] : s \in RuleStrings}
    \cup {[rulestring |-> DefaultRulestring, preset_string |-> p] : p \in PresetStrings}

\* terminal heights and widths: the grid gets rows - 4 and columns - 1 as maxima
TermRows == 4..(MaxY + 4)
TermColumns == 1..(MaxX + 1)

InitMain == \E a \in MainArgs : Entered(a)

\* main.rs:54-67 for a terminal of the given size
Build(rows, columns) ==
    LET config == build(args.preset_string, args.rulestring)
    IN  Construct(AsI16(AsI16(AsI16(rows) - 3) - 1), AsI16(AsI16(columns) - 1),
                  config.rule.birth_list, config.rule.survival_list)

\* main.rs:69
LoadConfigPreset == LoadPreset(build(args.preset_string, args.rulestring).preset)

NextMain ==
    \/ \E rows \in TermRows, columns \in TermColumns : Build(rows, columns)
    \/ LoadConfigPreset

SpecMain == InitMain /\ [][NextMain]_vars

(* -------- load_preset, update_cell and messages in any order ----------- *)

\* an index on the grid, the first one off it and one that wraps in the cast
FewIndices(max) == {0, max + 1, 65536}

\* update_cell with any of these arguments, the arguments not remembered
UpdateCellAnywhere ==
    \E y \in FewIndices(max_coords.y), x \in FewIndices(max_coords.x), val \in BOOLEAN :
        /\ ~panicked
        /\ Becomes(update_cell(Self, y, x, val), Message("UpdateCell", "-"))
        /\ UNCHANGED <<gens, host>>

\* load_preset of a fixed pattern at any time; of Random on the new model
\* only, as in main.rs:69
LoadPresetAnytime(preset) ==
    /\ ~panicked
    /\ preset = "Random" => msg.kind = "New"
    /\ \E random \in IF preset = "Random" THEN Grids(max_coords.y, max_coords.x) ELSE {cells} :
          Becomes(load_preset(Self, preset, random), Message("LoadPreset", preset))
    /\ UNCHANGED <<gens, host>>

NextSize ==
    \/ \E p \in Presets : LoadPresetAnytime(p)
    \/ UpdateCellAnywhere
    \/ \E d \in Directions : Move(d)
    \/ ToggleCellState
    \/ ToggleEditing
    \/ Idle
    \/ Quit

SpecSize == InitCell /\ [][NextSize]_vars

(* ------------------------------ run_model ------------------------------ *)

\* the keys with an arm in run_model, and one without
Keys == {"w", "a", "s", "d", "e", "q", " ", "x"}

\* what read() can return: a key pressed or released, or an event that is no
\* key event
Events ==
    {Event("press", ch) : ch \in Keys} \cup {Event("release", "e"), Event("resize", "-")}

\* poll returned false
Timeout == Event("timeout", "-")

\* variant: the Running arm takes the keys of the Editing arm
running_key_like_editing(ch) ==
    CASE ch = "w" -> <<Message("Move", "Up")>>
      [] ch = "a" -> <<Message("Move", "Left")>>
      [] ch = "s" -> <<Message("Move", "Down")>>
      [] ch = "d" -> <<Message("Move", "Right")>>
      [] ch = "e" -> <<Message("ToggleEditing", "-")>>
      [] ch = "q" -> <<Message("Quit", "-")>>
      [] ch = " " -> <<Message("ToggleCellState", "-")>>
      [] OTHER    -> << >>

\* main.rs:96-106: the messages sent for a key pressed while Running
running_key(ch) ==
    CASE ch = "e" -> <<Message("ToggleEditing", "-")>>
      [] ch = "q" -> <<Message("Quit", "-")>>
      [] OTHER    -> << >>

\* main.rs:119-144: the messages sent for a key pressed while Editing
editing_key(ch) ==
    CASE ch = "w" -> <<Message("Move", "Up")>>
      [] ch = "a" -> <<Message("Move", "Left")>>
      [] ch = "s" -> <<Message("Move", "Down")>>
      [] ch = "d" -> <<Message("Move", "Right")>>
      [] ch = "e" -> <<Message("ToggleEditing", "-")>>
      [] ch = "q" -> <<Message("Quit", "-")>>
      [] ch = " " -> <<Message("ToggleCellState", "-")>>
      [] OTHER    -> << >>

\* main.rs:88-111: the messages of one turn of the loop in Running
running_arm(event) ==
    IF event = Timeout THEN <<Message("Idle", "-")>>
    ELSE IF event.kind = "press" THEN running_key(event.ch)
    ELSE << >>

\* main.rs:113-146: the messages of one turn of the loop in Editing
editing_arm(event) ==
    IF event.kind = "press" THEN editing_key(event.ch) ELSE << >>

\* main.rs:70: run_model is called once the preset is loaded
CallRunModel ==
    /\ host.pc = "main"
    /\ msg.kind = "LoadPreset"
    /\ ~panicked
    /\ host' = [host EXCEPT !.pc = "loop"]
    /\ UNCHANGED <<cells, rule, state, current_coords, max_coords, panicked,
                   msg, prev, gens, args>>

\* one turn of the loop that sends the messages of sent (none or one)
Turn(event, sent) ==
    /\ host' = [pc |-> "loop", mode |-> state, event |-> event, sent |-> sent]
    /\ IF sent = << >>
       THEN UNCHANGED <<cells, rule, state, current_coords, max_coords, panicked,
                        msg, prev, args>>
       ELSE Becomes(update(Self, sent[1]), sent[1])
    /\ UNCHANGED gens

\* a turn in Running: an event within the tick interval, or the timeout
RunningTurn(event) ==
    /\ host.pc = "loop"
    /\ ~panicked
    /\ state = "Running"
    /\ Turn(event, running_arm(event))

\* a turn in Editing: event::read() returns an event
EditingTurn(event) ==
    /\ host.pc = "loop"
    /\ ~panicked
    /\ state = "Editing"
    /\ event # Timeout
    /\ Turn(event, editing_arm(event))

\* in Editing the tick interval passes with no input: event::read() has no
\* timeout and goes on blocking
EditingQuiet ==
    /\ host.pc = "loop"
    /\ ~panicked
    /\ state = "Editing"
    /\ host' = [pc |-> "loop", mode |-> state, event |-> Timeout, sent |-> << >>]
    /\ UNCHANGED <<cells, rule, state, current_coords, max_coords, panicked,
                   msg, prev, gens, args>>

\* variant: the loop is left in every mode
Break_in_any_mode ==
    /\ host.pc = "loop"
    /\ ~panicked
    /\ host' = [pc |-> "exited", mode |-> state, event |-> Event("none", "-"), sent |-> << >>]
    /\ UNCHANGED <<cells, rule, state, current_coords, max_coords, panicked,
                   msg, prev, gens, args>>

\* main.rs:148-150
Break ==
    /\ host.pc = "loop"
    /\ ~panicked
    /\ state = "Done"
    /\ host' = [pc |-> "exited", mode |-> state, event |-> Event("none", "-"), sent |-> << >>]
    /\ UNCHANGED <<cells, rule, state, current_coords, max_coords, panicked,
                   msg, prev, gens, args>>

\* draw, poll or read returns an error, which `?` hands to the caller
IoError ==
    /\ host.pc = "loop"
    /\ ~panicked
    /\ host' = [pc |-> "failed", mode |-> state, event |-> Event("none", "-"), sent |-> << >>]
    /\ UNCHANGED <<cells, rule, state, current_coords, max_coords, panicked,
                   msg, prev, gens, args>>

NextHost ==
    \/ \E p \in Presets : LoadPreset(p)
    \/ CallRunModel
    \/ \E event \in Events \cup {Timeout} : RunningTurn(event)
    \/ \E event \in Events : EditingTurn(event)
    \/ EditingQuiet
    \/ Break
    \/ IoError

SpecHost == InitCell /\ [][NextHost]_vars

(* ------------------------------ claims --------------------------------- *)

AllDead(g) == \A y \in DOMAIN g : \A x \in DOMAIN g[y] : ~g[y][x]

\* the Moore neighbours of (y, x) that lie inside the grid
Neighbours(g, y, x) ==
    {p \in (DOMAIN g) \X (DOMAIN g[y]) :
        /\ p # <<y, x>>
        /\ p[1] - y \in -1..1
        /\ p[2] - x \in -1..1}

LiveNeighbours(g, y, x) == Cardinality({p \in Neighbours(g, y, x) : g[p[1]][p[2]]})

\* the reference next generation of grid g under rule r
NextGeneration(g, r) ==
    [y \in DOMAIN g |-> [x \in DOMAIN g[y] |->
        IF g[y][x]
        THEN LiveNeighbours(g, y, x) \in Range(r.survival_list)
        ELSE LiveNeighbours(g, y, x) \in Range(r.birth_list)]]

\* grid g with exactly the cell (y, x) flipped
Flipped(g, y, x) ==
    [j \in DOMAIN g |-> [i \in DOMAIN g[j] |->
        IF j = y /\ i = x THEN ~g[j][i] ELSE g[j][i]]]

MessageKinds == {"Move", "ToggleCellState", "ToggleEditing", "Idle", "Quit"}

\* C1: an Idle delivered while Running replaces the grid by the reference next
\* generation (survival list for live cells, birth list for dead cells, live
\* neighbours counted on the previous generation, nothing outside the grid),
\* and the step does not fail.
C1_IdleIsNextGeneration ==
    (msg.kind = "Idle" /\ prev.state = "Running") =>
        /\ ~panicked
        /\ cells = NextGeneration(prev.cells, rule)

\* an Idle has changed a full 3x2 grid, whose edge cell (1, 0) had 5 live
\* neighbours and whose corner cell (0, 0) had 3
C1_Witness ==
    /\ msg.kind = "Idle"
    /\ prev.state = "Running"
    /\ max_coords = [x |-> 1, y |-> 2]
    /\ LiveNeighbours(prev.cells, 1, 0) = 5
    /\ LiveNeighbours(prev.cells, 0, 0) = 3
    /\ cells # prev.cells
    /\ cells = NextGeneration(prev.cells, rule)

\* C2 as stated: once the mode is Done, every message leaves mode, cursor and
\* every grid cell unchanged.
C2_DoneIsAbsorbing ==
    (prev.state = "Done" /\ msg.kind \in MessageKinds) =>
        /\ state = prev.state
        /\ current_coords = prev.current_coords
        /\ cells = prev.cells

\* C2 amended: once the mode is Done, every message leaves the mode and the
\* cursor unchanged; every message but ToggleCellState leaves the grid unchanged
\* and ToggleCellState flips exactly the cell under the cursor.
C2_DoneKeepsModeAndCursor ==
    (prev.state = "Done" /\ msg.kind \in MessageKinds) =>
        /\ state = "Done"
        /\ current_coords = prev.current_coords
        /\ msg.kind # "ToggleCellState" => cells = prev.cells
        /\ msg.kind = "ToggleCellState" =>
               cells = Flipped(prev.cells, current_coords.y, current_coords.x)

\* a ToggleCellState delivered in Done has changed the grid
C2_Witness ==
    /\ prev.state = "Done"
    /\ msg.kind = "ToggleCellState"
    /\ state = "Done"
    /\ cells # prev.cells

\* C3: Idle steps the grid by one generation if the mode is Running and leaves
\* the grid as it is otherwise; it never changes the cursor or the mode.
C3_IdleStepsIffRunning ==
    msg.kind = "Idle" =>
        /\ state = prev.state
        /\ current_coords = prev.current_coords
        /\ prev.state = "Running" => cells = NextGeneration(prev.cells, rule)
        /\ prev.state # "Running" => cells = prev.cells

\* an Idle delivered in Editing has left alone a grid that a generation step
\* would have changed
C3_Witness ==
    /\ msg.kind = "Idle"
    /\ prev.state = "Editing"
    /\ cells = prev.cells
    /\ NextGeneration(prev.cells, rule) # prev.cells

\* v clamped to 0..max
Clamp(v, max) == IF v < 0 THEN 0 ELSE IF v > max THEN max ELSE v

Delta(dir) ==
    CASE dir = "Up"    -> [x |-> 0, y |-> -1]
      [] dir = "Down"  -> [x |-> 0, y |-> 1]
      [] dir = "Left"  -> [x |-> -1, y |-> 0]
      [] dir = "Right" -> [x |-> 1, y |-> 0]

C5_ToggleFlipsCursorCell ==
    msg.kind = "ToggleCellState" =>
        /\ ~panicked
        /\ state = prev.state
        /\ current_coords = prev.current_coords
        /\ cells = Flipped(prev.cells, current_coords.y, current_coords.x)
        /\ AllDead(prev.cells) =>
               \A y \in DOMAIN cells : \A x \in DOMAIN cells[y] :
                   cells[y][x] <=> (y = current_coords.y /\ x = current_coords.x)

\* a ToggleCellState delivered in Running has set a cell away from the origin
\* alive
C5_Witness ==
    /\ msg.kind = "ToggleCellState"
    /\ prev.state = "Running"
    /\ current_coords = [x |-> 1, y |-> 1]
    /\ ~prev.cells[1][1]
    /\ cells[1][1]

\* C6: ToggleEditing turns Editing into Running, Running into Editing and leaves
\* Done; a second ToggleEditing gives back the mode before the first; it never
\* produces Done from another mode.
C6_ToggleEditingFlipsMode ==
    msg.kind = "ToggleEditing" =>
        /\ prev.state = "Editing" => state = "Running"
        /\ prev.state = "Running" => state = "Editing"
        /\ prev.state = "Done" => state = "Done"
        /\ toggle_editing_state(Self).state = prev.state
        /\ state = "Done" => prev.state = "Done"

\* a ToggleEditing has brought a Running model back to Editing
C6_Witness ==
    /\ msg.kind = "ToggleEditing"
    /\ prev.state = "Running"
    /\ state = "Editing"

\* C7: Quit sets the mode to Done from every mode and changes neither the grid
\* nor the cursor; a second Quit changes nothing at all.
C7_QuitSetsDone ==
    msg.kind = "Quit" =>
        /\ state = "Done"
        /\ cells = prev.cells
        /\ current_coords = prev.current_coords
        /\ quit(Self) = Self

\* a Quit delivered in Running has ended a model with a live cell
C7_Witness ==
    /\ msg.kind = "Quit"
    /\ prev.state = "Running"
    /\ state = "Done"
    /\ ~AllDead(cells)

\* C8: on the 5x5 grid under B3/S23, starting from the horizontal row, the grid
\* is the horizontal row after every even number of generation steps and the
\* vertical column after every odd number.
C8_BlinkerPeriodTwo ==
    cells = IF gens % 2 = 0 THEN Horizontal ELSE Vertical

\* the second generation step has brought the horizontal row back
C8_Witness ==
    /\ gens = 2
    /\ msg.kind = "Idle"
    /\ prev.cells = Vertical
    /\ cells = Horizontal

\* C9: under a rule whose birth list does not contain 0, a generation step of
\* an all-dead grid gives an all-dead grid.
C9_DeadStaysDead ==
    (/\ msg.kind = "Idle"
     /\ prev.state = "Running"
     /\ AllDead(prev.cells)
     /\ 0 \notin Range(rule.birth_list)) => AllDead(cells)

\* a generation step has left an all-dead grid all-dead under a rule that has
\* 0 in its survival list
C9_Witness ==
    /\ msg.kind = "Idle"
    /\ prev.state = "Running"
    /\ AllDead(prev.cells)
    /\ 0 \notin Range(rule.birth_list)
    /\ 0 \in Range(rule.survival_list)
    /\ AllDead(cells)

\* C10: loading a fixed preset never fails, whatever the size of the grid: the
\* cells of the pattern that lie on the grid are written, the others dropped.
C10_LargePresetIsCropped ==
    (msg.kind = "LoadPreset" /\ msg.arg # "Random") =>
        /\ ~panicked
        /\ \A y \in DOMAIN cells : \A x \in DOMAIN cells[y] :
               LET pattern == preset_cells(msg.arg, cells)
               IN  cells[y][x] =
                       IF y \in DOMAIN pattern /\ x \in DOMAIN pattern[y]
                       THEN pattern[y][x]
                       ELSE prev.cells[y][x]

\* C11: update_cell(y, x, val) with y > max_y or x > max_x, for every value of
\* the unsigned arguments, is ignored without a panic and leaves the grid as
\* it was; with both coordinates in bounds it sets exactly the cell (y, x).
C11_UpdateCellGuarded ==
    msg.kind = "UpdateCell" =>
        LET y == msg.arg.y
            x == msg.arg.x
        IN  /\ ~panicked
            /\ IF y > prev.max_coords.y \/ x > prev.max_coords.x
               THEN cells = prev.cells
               ELSE cells = [prev.cells EXCEPT ![y][x] = msg.arg.val]

TooMany(list) == \E i \in DOMAIN list : list[i] > 8

\* C12: Model::new panics whenever max_y <= 0 or max_x <= 0 and whenever a
\* birth or survival count is greater than 8; for all other arguments it
\* succeeds (an all-dead grid of max_y+1 by max_x+1, Editing, cursor (0,0)).
C12_NewPanicsIffInvalid ==
    msg.kind = "New" =>
        LET invalid == \/ max_coords.y <= 0
                       \/ max_coords.x <= 0
                       \/ TooMany(rule.birth_list)
                       \/ TooMany(rule.survival_list)
        IN  /\ panicked <=> invalid
            /\ ~invalid =>
                  /\ cells = [y \in 0..max_coords.y |-> [x \in 0..max_coords.x |-> FALSE]]
                  /\ state = "Editing"
                  /\ current_coords = [x |-> 0, y |-> 0]

\* a call with valid sizes and births that panics over a survival count of 9
C12_Witness ==
    /\ msg.kind = "New"
    /\ prev = NotBuilt
    /\ panicked
    /\ max_coords.y > 0
    /\ max_coords.x > 0
    /\ ~TooMany(rule.birth_list)
    /\ 9 \in Range(rule.survival_list)

Sentinels == {"B", "S"}

\* the model has just been built from the command line
BuiltFromArgs == msg.kind = "New" /\ prev = NotBuilt /\ args # NoArgs

\* the sentinel most recently read among the characters 1..i of s
OpenAt(s, i) ==
    LET seen == {j \in 1..i : s[j] \in Sentinels}
    IN  IF seen = {} THEN "none"
        ELSE s[CHOOSE j \in seen : \A k \in seen : k <= j]

\* the digits among the characters 1..n of s read while section sec was open
RECURSIVE Collected(_, _, _)
Collected(s, sec, n) ==
    IF n = 0 THEN << >>
    ELSE IF is_digit(s[n]) /\ OpenAt(s, n) = sec
         THEN Append(Collected(s, sec, n - 1), to_digit(s[n]))
         ELSE Collected(s, sec, n - 1)

OtherLetter(ch) == ch \notin Sentinels /\ ch \in Letters

\* C13: Rule::from returns the default rule when the first character opens no
\* section ("2983uhjnere"); for a string such as "B45/S10" it appends every
\* digit, in order, unsorted and with repetitions, to the list of the section
\* opened by the most recent 'B' or 'S' (births [4,5], survivals [1,0]).
C13_DigitsGoToOpenSection ==
    BuiltFromArgs =>
        LET s == args.rulestring
        IN  /\ s # << >> /\ s[1] \notin Sentinels => rule = default
            /\ s = <<"2", "9", "8", "3", "u", "h", "j", "n", "e", "r", "e">>
                  => rule = default
            /\ s = <<"B", "4", "5", "/", "S", "1", "0">>
                  => rule = Rule(<<4, 5>>, <<1, 0>>)
            /\ (s # << >> /\ s[1] \in Sentinels /\ \A i \in DOMAIN s : ~OtherLetter(s[i]))
                  => rule = Rule(Collected(s, "B", Len(s)), Collected(s, "S", Len(s)))

\* "B45/S10" has been parsed into births [4,5] and survivals [1,0]
C13_Witness ==
    /\ BuiltFromArgs
    /\ ~panicked
    /\ args.rulestring = <<"B", "4", "5", "/", "S", "1", "0">>
    /\ rule = Rule(<<4, 5>>, <<1, 0>>)

\* s has the form B<digits>/S<digits>
WellFormed(s) ==
    \E k \in 2..(Len(s) - 1) :
        /\ s[1] = "B"
        /\ s[k] = "/"
        /\ s[k + 1] = "S"
        /\ \A i \in (2..(k - 1)) \cup ((k + 2)..Len(s)) : is_digit(s[i])

\* C14: Rule::from returns the default rule for every rule string that is not
\* of the form B<digits>/S<digits>: no malformed string yields another rule.
C14_MalformedGivesDefault ==
    (BuiltFromArgs /\ ~WellFormed(args.rulestring)) => rule = default

\* C14, amended: Rule::from returns the default rule for every rule string
\* whose first character is neither 'B' nor 'S' and for every rule string with
\* a letter other than 'B' and 'S'; every other string, malformed or not and
\* the empty one included, yields the digits collected for each section.
C14_DefaultIffNoSectionOrLetter ==
    BuiltFromArgs =>
        LET s == args.rulestring
            falls_back == /\ s # << >>
                          /\ \/ s[1] \notin Sentinels
                             \/ \E i \in DOMAIN s : OtherLetter(s[i])
        IN  rule = IF falls_back THEN default
                   ELSE Rule(Collected(s, "B", Len(s)), Collected(s, "S", Len(s)))

\* the malformed string "B1" has been parsed into births [1] and no survivals
C14_Witness ==
    /\ BuiltFromArgs
    /\ ~WellFormed(args.rulestring)
    /\ args.rulestring = <<"B", "1">>
    /\ rule = Rule(<<1>>, << >>)
    /\ rule # default

\* B<digits>/S<digits> with the digits of each section ascending, none repeated
Canonical(s) ==
    \E k \in 2..(Len(s) - 1) :
        /\ s[1] = "B"
        /\ s[k] = "/"
        /\ s[k + 1] = "S"
        /\ \A i \in (2..(k - 1)) \cup ((k + 2)..Len(s)) : is_digit(s[i])
        /\ \A i, j \in 2..(k - 1) : i < j => to_digit(s[i]) < to_digit(s[j])
        /\ \A i, j \in (k + 2)..Len(s) : i < j => to_digit(s[i]) < to_digit(s[j])

\* the terminal is large enough for Model::new
RoomForGrid == max_coords.y > 0 /\ max_coords.x > 0

\* C15: for every canonical rule string s, rendering the rule parsed from s
\* with rulestring() yields exactly s.
C15_RoundTripOfEveryCanonical ==
    (BuiltFromArgs /\ RoomForGrid /\ Canonical(args.rulestring))
        => ~panicked /\ rulestring(Self) = args.rulestring

\* C15, amended: for every canonical rule string s without the digit 9,
\* rendering the model built from the rule parsed from s with rulestring()
\* yields exactly s; with a digit 9 in s, Model::new panics on the parsed
\* lists and there is no model to render.
C15_RoundTripUpToEight ==
    (BuiltFromArgs /\ RoomForGrid /\ Canonical(args.rulestring))
        => IF "9" \in Range(args.rulestring)
           THEN panicked
           ELSE ~panicked /\ rulestring(Self) = args.rulestring

\* "B018/S18" has been parsed, built into a model and rendered back
C15_Witness ==
    /\ BuiltFromArgs
    /\ ~panicked
    /\ Canonical(args.rulestring)
    /\ args.rulestring = <<"B", "0", "1", "8", "/", "S", "1", "8">>
    /\ rule = Rule(<<0, 1, 8>>, <<1, 8>>)
    /\ rulestring(Self) = args.rulestring

\* the locals of Rule::from after the characters 1..n of s
After(s, n) == from_loop(from_start, SubSeq(s, 1, n), 1)

SectionOpen(st) == ~st.returned /\ (st.in_born \/ st.in_survival)

\* C16: while a section is open, Rule::from skips every character other than
\* a decimal digit, 'B' or 'S': the character changes neither list and does
\* not abort the parse.
C16_EveryOtherCharacterSkipped ==
    BuiltFromArgs =>
        \A i \in DOMAIN args.rulestring :
            LET ch == args.rulestring[i]
                st == After(args.rulestring, i - 1)
            IN  (SectionOpen(st) /\ ~is_digit(ch) /\ ch \notin Sentinels)
                    => After(args.rulestring, i) = st

\* C16, amended: while a section is open, Rule::from skips every character
\* that is neither a decimal digit nor a letter: it changes neither list and
\* does not abort the parse; a letter other than 'B' and 'S' makes Rule::from
\* return the default rule even while a section is open.
C16_NonLettersSkipped ==
    BuiltFromArgs =>
        \A i \in DOMAIN args.rulestring :
            LET ch == args.rulestring[i]
                st == After(args.rulestring, i - 1)
            IN  /\ (SectionOpen(st) /\ ~is_digit(ch) /\ ~is_alphabetic(ch))
                      => After(args.rulestring, i) = st
                /\ (SectionOpen(st) /\ OtherLetter(ch))
                      => After(args.rulestring, i).returned /\ rule = default

\* "B4 / S1": blanks and the slash were skipped inside both sections
C16_Witness ==
    /\ BuiltFromArgs
    /\ args.rulestring = <<"B", "4", " ", "/", " ", "S", "1">>
    /\ SectionOpen(After(args.rulestring, 2))
    /\ After(args.rulestring, 3) = After(args.rulestring, 2)
    /\ rule = Rule(<<4>>, <<1>>)

\* the coordinates (y, x) of the live cells of g
Live(g) == UNION {{<<y, x>> : x \in {c \in DOMAIN g[y] : g[y][c]}} : y \in DOMAIN g}

\* C17: load_preset writes the pattern with its top-left corner at (0,0), cell
\* (r,c) of the pattern going to grid cell (r,c), and leaves every grid cell
\* outside the pattern's extent unchanged; Blinker on an all-dead grid gives
\* row 1, columns 0-2 alive, and one generation under B3/S23 turns that into
\* column 1, rows 0-2.
C17_PatternWrittenAtOrigin ==
    /\ (msg.kind = "LoadPreset" /\ msg.arg # "Random") =>
          LET pattern == preset_cells(msg.arg, cells)
          IN  /\ \A r \in DOMAIN pattern : \A c \in DOMAIN pattern[r] :
                     /\ r \in DOMAIN cells
                     /\ c \in DOMAIN cells[r]
                     /\ cells[r][c] = pattern[r][c]
              /\ \A y \in DOMAIN cells : \A x \in DOMAIN cells[y] :
                     (y \notin DOMAIN pattern \/ x \notin DOMAIN pattern[y])
                         => cells[y][x] = prev.cells[y][x]
              /\ (msg.arg = "Blinker" /\ AllDead(prev.cells))
                     => Live(cells) = {<<1, 0>>, <<1, 1>>, <<1, 2>>}
    /\ (/\ msg.kind = "Idle"
        /\ prev.state = "Running"
        /\ prev.rule = default
        /\ Live(prev.cells) = {<<1, 0>>, <<1, 1>>, <<1, 2>>})
          => Live(cells) = {<<0, 1>>, <<1, 1>>, <<2, 1>>}

\* the preset of the command line has just been loaded into the new model
PresetLoadedFromArgs == msg.kind = "LoadPreset" /\ args # NoArgs

\* C18: Preset::from maps exactly "Blinker", "Mold" and "Random" to the presets
\* of these names and every other string to Empty; a model of any valid size
\* into which Empty is loaded has every cell dead.
C18_OtherNamesGiveEmpty ==
    PresetLoadedFromArgs =>
        /\ msg.arg = IF args.preset_string \in {"Blinker", "Mold", "Random"}
                     THEN args.preset_string
                     ELSE "Empty"
        /\ msg.arg = "Empty" => ~panicked /\ AllDead(cells)

\* "blinker" in lower case was taken as Empty and the grid is all dead
C18_Witness ==
    /\ PresetLoadedFromArgs
    /\ args.preset_string = "blinker"
    /\ msg.arg = "Empty"
    /\ ~panicked
    /\ AllDead(cells)
    /\ cells = prev.cells

\* C19: the size of the grid never changes: after Model::new(max_y, max_x) and
\* any sequence of load_preset, update_cell and messages the buffer has
\* exactly max_y+1 rows and every row exactly max_x+1 columns.
C19_GridSizeFixed ==
    /\ max_coords = prev.max_coords
    /\ DOMAIN cells = 0..max_coords.y
    /\ \A y \in DOMAIN cells : DOMAIN cells[y] = 0..max_coords.x

\* update_cell has changed a cell of a grid that a preset was loaded into
\* after the first generations
C19_Witness ==
    /\ msg.kind = "UpdateCell"
    /\ prev.state = "Running"
    /\ ~panicked
    /\ cells # prev.cells
    /\ ~AllDead(cells)
    /\ DOMAIN cells = DOMAIN prev.cells

\* C20: the cursor is changed only by Move while the mode is Editing: Move in
\* Running or Done, and ToggleCellState, ToggleEditing, Idle and Quit in any
\* mode, leave it as it was; in Editing, Move(Up/Down/Left/Right) changes it
\* by (0,-1)/(0,1)/(-1,0)/(1,0) whenever the result stays in bounds.
C20_CursorMovedOnlyByMoveInEditing ==
    msg.kind \in MessageKinds =>
        IF msg.kind = "Move" /\ prev.state = "Editing"
        THEN LET to_x == prev.current_coords.x + Delta(msg.arg).x
                 to_y == prev.current_coords.y + Delta(msg.arg).y
             IN  (to_x \in 0..max_coords.x /\ to_y \in 0..max_coords.y)
                     => current_coords = [x |-> to_x, y |-> to_y]
        ELSE current_coords = prev.current_coords

\* a Move in Running that had room to move the cursor and left it in place
C20_Witness ==
    /\ msg = Message("Move", "Left")
    /\ prev.state = "Running"
    /\ prev.current_coords = [x |-> 1, y |-> 1]
    /\ current_coords = [x |-> 1, y |-> 1]
    /\ ~panicked

\* C21: the mode changes only through ToggleEditing and Quit: Move,
\* ToggleCellState and Idle leave it unchanged in every state, and the only
\* mode transitions are Editing <-> Running and any -> Done, from Editing at
\* the start.
C21_ModeChangesOnlyByToggleEditingAndQuit ==
    /\ msg.kind = "New" => state = "Editing"
    /\ msg.kind \in {"Move", "ToggleCellState", "Idle", "LoadPreset"} => state = prev.state
    /\ \/ state = prev.state
       \/ prev.state = "Editing" /\ state = "Running" /\ msg.kind = "ToggleEditing"
       \/ prev.state = "Running" /\ state = "Editing" /\ msg.kind = "ToggleEditing"
       \/ state = "Done" /\ msg.kind = "Quit"

\* a generation step that changed the grid and left the mode Running
C21_Witness ==
    /\ msg.kind = "Idle"
    /\ prev.state = "Running"
    /\ cells # prev.cells
    /\ state = "Running"
    /\ ~panicked

\* the message a key stands for
KeyMessage(ch) ==
    CASE ch = "w" -> Message("Move", "Up")
      [] ch = "a" -> Message("Move", "Left")
      [] ch = "s" -> Message("Move", "Down")
      [] ch = "d" -> Message("Move", "Right")
      [] ch = "e" -> Message("ToggleEditing", "-")
      [] ch = "q" -> Message("Quit", "-")
      [] ch = " " -> Message("ToggleCellState", "-")

\* a turn of the loop has been made in Editing or Running
TurnMade == host.pc = "loop" /\ host.mode \in {"Editing", "Running"}

\* C22: in run_model every turn of the loop delivers at most one message: an
\* input event that arrives before the tick timeout is translated to its
\* message and exactly that message is delivered, with no generation step in
\* the same turn, and a timeout with no input delivers exactly one Idle; this
\* holds in Editing and in Running.
C22_OneMessagePerTurn ==
    TurnMade =>
        /\ Len(host.sent) <= 1
        /\ (host.event.kind = "press" /\ host.event.ch \in Keys \ {"x"})
              => /\ host.sent = <<KeyMessage(host.event.ch)>>
                 /\ msg = KeyMessage(host.event.ch)
                 /\ prev.state = host.mode
        /\ host.event = Timeout
              => /\ host.sent = <<Message("Idle", "-")>>
                 /\ msg = Message("Idle", "-")
                 /\ prev.state = host.mode

Reverse(list) == [i \in 1..Len(list) |-> list[Len(list) + 1 - i]]

\* lists with the values of list in another order or repeated
Rearranged(list) == {list, Reverse(list), list \o list, Reverse(list) \o list}

\* rules whose lists have the same sets of values as those of r
SameMembers(r) ==
    {Rule(b, sv) : b \in Rearranged(r.birth_list), sv \in Rearranged(r.survival_list)}
    \cup {r2 \in TickRules : /\ Range(r2.birth_list) = Range(r.birth_list)
                             /\ Range(r2.survival_list) = Range(r.survival_list)}

\* C24: the rule is immutable after construction and only membership counts:
\* rulestring() returns the same value after any sequence of messages, and a
\* generation step gives the same next grid for any two rules whose birth
\* lists have the same set of values and whose survival lists have the same
\* set of values.
C24_RuleFixedMembershipOnly ==
    /\ rule = prev.rule
    /\ rulestring(Self) = rulestring(prev)
    /\ (msg.kind = "Idle" /\ prev.state = "Running") =>
          \A r2 \in SameMembers(prev.rule) :
              /\ pass_tick([prev EXCEPT !.rule = r2]).cells = cells
              /\ pass_tick([prev EXCEPT !.rule = r2]).rule = r2

\* a generation under B3/S23 with a birth, the same under B33/S3223
C24_Witness ==
    /\ msg.kind = "Idle"
    /\ prev.state = "Running"
    /\ rule = default
    /\ rulestring(Self) = <<"B", "3", "/", "S", "2", "3">>
    /\ \E y \in DOMAIN cells : \E x \in DOMAIN cells[y] : cells[y][x] /\ ~prev.cells[y][x]
    /\ pass_tick([prev EXCEPT !.rule = Rule(<<3, 3>>, <<3, 2, 2, 3>>)]).cells = cells

\* C25: under run_model as coded, a new model starts in Editing with the
\* cursor at (0,0) and every cell dead (before the preset is loaded); the only
\* messages delivered while Running are ToggleEditing, Quit and Idle, and Idle
\* is never delivered while Editing; hence while Running the grid changes only
\* by whole generation steps and while Editing only by the toggle of the one
\* cell under the cursor.
C25_HostKeepsModesApart ==
    /\ msg.kind = "New" =>
          /\ state = "Editing"
          /\ current_coords = [x |-> 0, y |-> 0]
          /\ AllDead(cells)
          /\ host.pc = "main"
    /\ msg.kind \in MessageKinds =>
          /\ host.pc # "main"
          /\ prev.state \in {"Editing", "Running"}
          /\ prev.state = "Running" => msg.kind \in {"ToggleEditing", "Quit", "Idle"}
          /\ prev.state = "Editing" => msg.kind # "Idle"
          /\ cells # prev.cells =>
                \/ /\ prev.state = "Running"
                   /\ msg.kind = "Idle"
                   /\ cells = NextGeneration(prev.cells, rule)
                \/ /\ prev.state = "Editing"
                   /\ msg.kind = "ToggleCellState"
                   /\ cells = Flipped(prev.cells, current_coords.y, current_coords.x)

\* the poll in Running timed out and the Idle it delivered advanced the grid by
\* one whole generation
C25_Witness ==
    /\ host.pc = "loop"
    /\ host.mode = "Running"
    /\ host.event = Timeout
    /\ host.sent = <<Message("Idle", "-")>>
    /\ msg.kind = "Idle"
    /\ prev.state = "Running"
    /\ cells # prev.cells
    /\ cells = NextGeneration(prev.cells, rule)

====
